---- MODULE Spec2Model ----
(***************************************************************************)
(* Model of yasb/update_colors.py: the script that copies a pywal palette  *)
(* into three stylesheets (update_file_colors), reads a palette back from  *)
(* styles.css (read_css_variables) and patches the "Custom Warm" scheme of *)
(* the Windows Terminal settings.json (update_windows_terminal_scheme).    *)
(*                                                                         *)
(* A text is a sequence of one-character strings, so that the regular      *)
(* expressions of the script are modelled by what they match.              *)
(***************************************************************************)
EXTENDS Naturals, Sequences, FiniteSets, TLC

VARIABLES
    pc,             \* position of the running script ("idle" before a run)
    calls,          \* text specification: calls of update_file_colors so far
    argv,           \* sys.argv[1:] of the current run, abstracted
    wallpaper,      \* the wallpaper path main() holds: does it exist
    colors_json,    \* ~/.cache/wal/colors.json
    colors_data,    \* the palette load_wal_colors returned
    color_mapping,  \* the ordered mapping update_css builds
    disk,           \* the three text targets on disk
    settings,       \* the Windows Terminal settings.json on disk
    target,         \* index of the text target update_css works on
    content,        \* update_file_colors: the text held in memory
    variables,      \* the palette handed to update_windows_terminal_scheme
    new_settings,   \* update_windows_terminal_scheme: the document in memory
    exit_code,      \* exit status of the run: "none" while it runs, "0", "1"
    orig,           \* history: disk and settings when the run started
    opened,         \* history: text targets opened for writing in this run
    outcome,        \* history: how update_file_colors ended for each target
    attempted,      \* history: targets update_file_colors was called on
    wt,             \* history: how update_windows_terminal_scheme ended
    fatal           \* history: the fatal setup error the run met

vars == <<pc, calls, argv, wallpaper, colors_json, colors_data, color_mapping,
          disk, settings, target, content, variables, new_settings, exit_code,
          orig, opened, outcome, attempted, wt, fatal>>

\* ---------------------------------------------------------------- bounds

\* Declarations (lines) in the styles.css the model starts from.
MaxDecls == 2
\* Records in the schemes array of settings.json.
MaxSchemes == 2
\* Calls of update_file_colors on one file, in the text specification.
MaxCalls == 2

\* ------------------------------------------------------------ characters

DecDigits == <<"0", "1", "2", "3", "4", "5", "6", "7", "8", "9">>

Digit == {DecDigits[i] : i \in 1..10}

\* [0-9a-fA-F]
HexDigit == Digit \cup {"a", "b", "c", "d", "e", "f", "A", "B", "C", "D", "E", "F"}

\* \s, as far as the texts of the model go
Whitespace == {" ", "\t", "\n", "\r", "\f"}

LowerCase == <<"a", "b", "c", "d", "e", "f", "g", "h", "i", "j", "k", "l", "m",
               "n", "o", "p", "q", "r", "s", "t", "u", "v", "w", "x", "y", "z">>

UpperCase == <<"A", "B", "C", "D", "E", "F", "G", "H", "I", "J", "K", "L", "M",
               "N", "O", "P", "Q", "R", "S", "T", "U", "V", "W", "X", "Y", "Z">>

\* str.upper() on one character
UpperChar(c) ==
    IF \E i \in 1..26 : LowerCase[i] = c
    THEN UpperCase[CHOOSE i \in 1..26 : LowerCase[i] = c]
    ELSE c

\* str.upper()
Upper(s) == [i \in 1..Len(s) |-> UpperChar(s[i])]

\* str(i) for the indices 0..15
IntStr(i) == IF i < 10 THEN <<DecDigits[i + 1]>> ELSE <<"1", DecDigits[i - 9]>>

\* f"color{i}"
ColorKey(i) == <<"c", "o", "l", "o", "r">> \o IntStr(i)

BackgroundKey == <<"b", "a", "c", "k", "g", "r", "o", "u", "n", "d">>
ForegroundKey == <<"f", "o", "r", "e", "g", "r", "o", "u", "n", "d">>
CursorKey == <<"c", "u", "r", "s", "o", "r">>

\* f"--{color_key}"
CssVar(key) == <<"-", "-">> \o key

Black == <<"#", "0", "0", "0", "0", "0", "0">>
White == <<"#", "f", "f", "f", "f", "f", "f">>

\* ----------------------------------------------------- regular expressions

\* The literal w at position i of text
StartsWith(text, i, w) ==
    /\ i + Len(w) - 1 <= Len(text)
    /\ \A k \in 1..Len(w) : text[i + k - 1] = w[k]

\* \s* from position j: the first position that holds no whitespace
RECURSIVE SkipWs(_, _)
SkipWs(text, j) ==
    IF j <= Len(text) /\ text[j] \in Whitespace THEN SkipWs(text, j + 1) ELSE j

\* #[0-9a-fA-F]{6} at position h
Hex6At(text, h) ==
    /\ h + 6 <= Len(text)
    /\ text[h] = "#"
    /\ \A k \in 1..6 : text[h + k] \in HexDigit

\* rf"({re.escape(var_name)}:\s*)#[0-9a-fA-F]{{6}}" tried at position i:
\* the position of the "#" of the match, 0 when the pattern does not match.
DeclAt(text, i, var_name) ==
    IF /\ StartsWith(text, i, var_name)
       /\ i + Len(var_name) <= Len(text)
       /\ text[i + Len(var_name)] = ":"
    THEN LET h == SkipWs(text, i + Len(var_name) + 1)
         IN  IF Hex6At(text, h) THEN h ELSE 0
    ELSE 0

\* re.sub(pattern, rf"\g<1>{new_color}", content) from position i on: the
\* leftmost match keeps its group 1 and gets new_color for its seven characters
\* "#RRGGBB", and the search goes on after it; the text without a match is kept.
RECURSIVE ReSubFrom(_, _, _, _)
ReSubFrom(text, i, var_name, new_color) ==
    LET starts == {j \in i..Len(text) : DeclAt(text, j, var_name) # 0}
    IN  IF starts = {} THEN SubSeq(text, i, Len(text))
        ELSE LET j == CHOOSE j \in starts : \A l \in starts : j <= l
                 h == DeclAt(text, j, var_name)
             IN  SubSeq(text, i, h - 1) \o new_color
                 \o ReSubFrom(text, h + 7, var_name, new_color)

\* Mutant of ReSub: re.sub with count=1, only the first match replaced.
ReSubFirstOnly(text, var_name, new_color) ==
    IF \E i \in 1..Len(text) : DeclAt(text, i, var_name) # 0
    THEN LET i == CHOOSE i \in 1..Len(text) :
                      /\ DeclAt(text, i, var_name) # 0
                      /\ \A j \in 1..(i - 1) : DeclAt(text, j, var_name) = 0
             h == DeclAt(text, i, var_name)
         IN  SubSeq(text, 1, h - 1) \o new_color \o SubSeq(text, h + 7, Len(text))
    ELSE text

ReSub(text, var_name, new_color) == ReSubFrom(text, 1, var_name, new_color)

\* Mutant of Changed: `updated` set for every entry, changed text or not.
ChangedAlways(new_content, old_content) == TRUE

\* if new_content != content
Changed(new_content, old_content) == new_content # old_content

\* The loop of update_file_colors over color_mapping.items(), from entry k on:
\* the text and the flag `updated` it ends with.
RECURSIVE SubstituteFrom(_, _, _, _)
SubstituteFrom(mapping, k, text, updated) ==
    IF k > Len(mapping) THEN [content |-> text, updated |-> updated]
    ELSE LET new_content == ReSub(text, mapping[k][1], mapping[k][2])
         IN  IF Changed(new_content, text)
             THEN SubstituteFrom(mapping, k + 1, new_content, TRUE)
             ELSE SubstituteFrom(mapping, k + 1, text, updated)

Substitute(mapping, text) == SubstituteFrom(mapping, 1, text, FALSE)
\* -------------------------------------------------------------- update_css

\* colors.get(color_key, "#000000") and special.get(name, default)
DictGet(d, key, default) == IF key \in DOMAIN d THEN d[key] ELSE default

\* The ordered color_mapping of update_css: --color0 .. --color15, then
\* --background, --foreground, --cursor, each with its value or its default.
BuildMapping(data) ==
    [k \in 1..19 |->
        CASE k <= 16 -> <<CssVar(ColorKey(k - 1)), DictGet(data.colors, k - 1, Black)>>
          [] k = 17 -> <<CssVar(BackgroundKey), DictGet(data.special, "background", Black)>>
          [] k = 18 -> <<CssVar(ForegroundKey), DictGet(data.special, "foreground", White)>>
          [] k = 19 -> <<CssVar(CursorKey), DictGet(data.special, "cursor", White)>>]

\* var_name.replace('--', ''): every non-overlapping "--", left to right
RECURSIVE RemoveDashDash(_)
RemoveDashDash(s) ==
    IF s = <<>> THEN <<>>
    ELSE IF StartsWith(s, 1, <<"-", "-">>) THEN RemoveDashDash(SubSeq(s, 3, Len(s)))
    ELSE <<s[1]>> \o RemoveDashDash(Tail(s))

\* css_variables of update_css: clean_name -> color, later entries winning
CleanVariables(mapping) ==
    LET clean == [k \in 1..Len(mapping) |-> RemoveDashDash(mapping[k][1])]
        last(n) == CHOOSE k \in 1..Len(mapping) :
                       /\ clean[k] = n
                       /\ \A j \in (k + 1)..Len(mapping) : clean[j] # n
    IN  [n \in {clean[k] : k \in 1..Len(mapping)} |-> mapping[last(n)][2]]

\* ------------------------------------------------------ read_css_variables

\* \d+ from position j: the first position that holds no digit
RECURSIVE SkipDigits(_, _)
SkipDigits(text, j) ==
    IF j <= Len(text) /\ text[j] \in Digit THEN SkipDigits(text, j + 1) ELSE j

\* (color\d+|background|foreground|cursor) followed by ":" at position p: the
\* position after the name, 0 when no alternative matches.
ReaderNameEnd(text, p) ==
    LET afterColor == SkipDigits(text, p + 5)
        isName(w) == /\ StartsWith(text, p, w)
                     /\ p + Len(w) <= Len(text)
                     /\ text[p + Len(w)] = ":"
    IN  IF /\ StartsWith(text, p, <<"c", "o", "l", "o", "r">>)
           /\ afterColor > p + 5
           /\ afterColor <= Len(text)
           /\ text[afterColor] = ":"
        THEN afterColor
        ELSE IF isName(BackgroundKey) THEN p + Len(BackgroundKey)
        ELSE IF isName(ForegroundKey) THEN p + Len(ForegroundKey)
        ELSE IF isName(CursorKey) THEN p + Len(CursorKey)
        ELSE 0

\* r'--(color\d+|background|foreground|cursor):\s*(#[0-9a-fA-F]{6})' tried at
\* position i: <<name, value, position after the match>>, <<>> when no match.
ReaderMatchAt(text, i) ==
    IF ~StartsWith(text, i, <<"-", "-">>) THEN <<>>
    ELSE LET e == ReaderNameEnd(text, i + 2)
         IN  IF e = 0 THEN <<>>
             ELSE LET h == SkipWs(text, e + 1)
                  IN  IF Hex6At(text, h)
                      THEN <<SubSeq(text, i + 2, e - 1), SubSeq(text, h, h + 6), h + 7>>
                      ELSE <<>>

\* variables[var_name] = color_value
DictSet(d, key, value) ==
    [k \in DOMAIN d \cup {key} |-> IF k = key THEN value ELSE d[k]]

\* re.findall and the loop that fills `variables`, in the order of the matches
RECURSIVE FindAllFrom(_, _, _)
FindAllFrom(text, i, found) ==
    IF i > Len(text) THEN found
    ELSE LET m == ReaderMatchAt(text, i)
         IN  IF m # <<>>
             THEN FindAllFrom(text, m[3], DictSet(found, m[1], m[2]))
             ELSE FindAllFrom(text, i + 1, found)

EmptyDict == <<>>

ReadVariables(text) == FindAllFrom(text, 1, EmptyDict)

\* ------------------------------------------ update_windows_terminal_scheme

WTColorNames == <<"black", "red", "green", "yellow", "blue", "purple", "cyan", "white",
                  "brightBlack", "brightRed", "brightGreen", "brightYellow",
                  "brightBlue", "brightPurple", "brightCyan", "brightWhite">>

\* color_map, in its order: <<css_var, wt_prop>>
color_map ==
    [k \in 1..19 |->
        CASE k <= 16 -> <<ColorKey(k - 1), WTColorNames[k]>>
          [] k = 17 -> <<BackgroundKey, "background">>
          [] k = 18 -> <<ForegroundKey, "foreground">>
          [] k = 19 -> <<CursorKey, "cursorColor">>]

\* Mutant of SchemeValue: the alpha suffix of background is kept.
SchemeValueKeepsAlpha(css_var, color_value) == Upper(color_value)

\* The value a property gets: background loses a 2-digit alpha suffix, and
\* every value is uppercased.
SchemeValue(css_var, color_value) ==
    IF css_var = BackgroundKey /\ Len(color_value) = 9
    THEN Upper(SubSeq(color_value, 1, 7))
    ELSE Upper(color_value)

\* for css_var, wt_prop in color_map.items(): ... from entry k on
RECURSIVE ApplyColorMap(_, _, _)
ApplyColorMap(props, k, vs) ==
    IF k > Len(color_map) THEN props
    ELSE LET css_var == color_map[k][1]
             wt_prop == color_map[k][2]
         IN  IF css_var \in DOMAIN vs
             THEN ApplyColorMap(DictSet(props, wt_prop, SchemeValue(css_var, vs[css_var])),
                                k + 1, vs)
             ELSE ApplyColorMap(props, k + 1, vs)

\* The record after the color_map loop and the selectionBackground rule
UpdateScheme(scheme, vs) ==
    LET props == ApplyColorMap(scheme.props, 1, vs)
    IN  [scheme EXCEPT !.props =
            IF ColorKey(8) \in DOMAIN vs
            THEN DictSet(props, "selectionBackground", Upper(vs[ColorKey(8)]))
            ELSE props]

CustomWarm == "Custom Warm"

\* Mutant of FindCustomWarm: the loop without its break, the last such record.
FindLastCustomWarm(schemes) ==
    IF \E idx \in 1..Len(schemes) : schemes[idx].name = CustomWarm
    THEN CHOOSE idx \in 1..Len(schemes) :
             /\ schemes[idx].name = CustomWarm
             /\ \A j \in (idx + 1)..Len(schemes) : schemes[j].name # CustomWarm
    ELSE 0

\* The loop with its break: the index of the first record named "Custom Warm",
\* 0 for None.
FindCustomWarm(schemes) ==
    IF \E idx \in 1..Len(schemes) : schemes[idx].name = CustomWarm
    THEN CHOOSE idx \in 1..Len(schemes) :
             /\ schemes[idx].name = CustomWarm
             /\ \A j \in 1..(idx - 1) : schemes[j].name # CustomWarm
    ELSE 0
\* ------------------------------------------------------------------ inputs

\* "#" and six times the digit c
Hex1(c) == <<"#", c, c, c, c, c, c>>

HexLower == <<"0", "1", "2", "3", "4", "5", "6", "7", "8", "9", "a", "b", "c", "d", "e", "f">>

\* A colors.json with all its keys, in plain #rrggbb.
PaletteFull ==
    [colors |-> [i \in 0..15 |-> <<"#", HexLower[i + 1], "a", HexLower[i + 1], "b", "0", "c">>],
     special |-> [background |-> Hex1("1"), foreground |-> Hex1("e"), cursor |-> Hex1("e")]]

\* A colors.json with few keys, whose background carries an alpha suffix.
PaletteAlpha ==
    [colors |-> (1 :> <<"#", "f", "f", "0", "0", "a", "a">> @@ 8 :> Hex1("3")),
     special |-> [background |-> <<"#", "1", "a", "1", "b", "1", "c", "a", "d">>,
                  cursor |-> Hex1("F")]]

Palettes == {PaletteFull, PaletteAlpha}

NoData == [colors |-> EmptyDict, special |-> EmptyDict]

\* Lines a stylesheet of the model is made of.
LineColor1 == CssVar(ColorKey(1)) \o <<":", " ">> \o <<"#", "1", "2", "3", "4", "5", "6">> \o <<";", "\n">>
LineColor10 == CssVar(ColorKey(10)) \o <<":", " ">> \o <<"#", "1", "2", "3", "4", "5", "6">> \o <<";">>
LineColor1Upper == CssVar(ColorKey(1)) \o <<":">> \o <<"#", "A", "B", "C", "D", "E", "F">> \o <<"\n">>
LineBackgroundAlpha == CssVar(BackgroundKey) \o <<":", " ">> \o <<"#", "1", "a", "1", "b", "1", "c", "a", "d">> \o <<";">>
LineSuffixName == <<"-", "-", "x">> \o CssVar(ColorKey(1)) \o <<":", " ">> \o <<"#", "6", "5", "4", "3", "2", "1">> \o <<";">>
LineSpacedColon == CssVar(ColorKey(8)) \o <<" ", ":", " ">> \o Hex1("8") \o <<";">>
LineColor8 == CssVar(ColorKey(8)) \o <<":", "\t">> \o Hex1("3") \o <<";">>
LineAccent == <<"-", "-", "a", "c", "c", "e", "n", "t">> \o <<":", " ">> \o Hex1("7") \o <<";">>
LineColor100 == CssVar(ColorKey(10)) \o <<"0", ":", " ">> \o Hex1("9") \o <<";">>

Lines == {LineColor1, LineColor10, LineColor1Upper, LineBackgroundAlpha,
          LineSuffixName, LineSpacedColon, LineColor8, LineColor100}

RECURSIVE Concat(_)
Concat(ss) == IF ss = <<>> THEN <<>> ELSE Head(ss) \o Concat(Tail(ss))

\* The stylesheets of at most MaxDecls lines
StylesheetsOf(lines) == {Concat(ls) : ls \in UNION {[1..n -> lines] : n \in 0..MaxDecls}}

Stylesheets == StylesheetsOf(Lines)

\* The stylesheets a run of the whole script starts from
RunStylesheets ==
    StylesheetsOf({LineColor1, LineColor8, LineBackgroundAlpha, LineSuffixName, LineAccent})

File(text) == [exists |-> TRUE, text |-> text]
Missing == [exists |-> FALSE, text |-> <<>>]

CSS_FILE == "CSS_FILE"
VENCORD_THEME_FILE == "VENCORD_THEME_FILE"
FIREFOX_CSS_FILE == "FIREFOX_CSS_FILE"

\* The text targets, in the order update_css takes them
Targets == <<CSS_FILE, VENCORD_THEME_FILE, FIREFOX_CSS_FILE>>

TargetSet == {Targets[i] : i \in 1..3}

\* Records of a schemes array
SchemeWarm ==
    [name |-> CustomWarm,
     props |-> [background |-> <<"#", "0", "C", "0", "C", "0", "C">>,
                red |-> <<"#", "C", "5", "0", "F", "1", "F">>,
                selectionBackground |-> Hex1("F")]]
SchemeWarmSecond ==
    [name |-> CustomWarm, props |-> [foreground |-> Hex1("C"), brightBlack |-> Hex1("7")]]
SchemeCampbell ==
    [name |-> "Campbell", props |-> [background |-> Hex1("0"), red |-> Hex1("9")]]

SchemeRecords == {SchemeWarm, SchemeWarmSecond, SchemeCampbell}

SettingsMissing ==
    [kind |-> "missing", indent |-> 0, other |-> "", has_schemes |-> FALSE, schemes |-> <<>>]
\* A settings.json json.load rejects (comments, a truncated write, ...)
SettingsMalformed ==
    [kind |-> "malformed", indent |-> 0, other |-> "", has_schemes |-> FALSE, schemes |-> <<>>]
SettingsDoc(indent, has_schemes, schemes) ==
    [kind |-> "json", indent |-> indent, other |-> "profiles",
     has_schemes |-> has_schemes, schemes |-> schemes]

SettingsDocs ==
    {SettingsMissing, SettingsMalformed, SettingsDoc(4, FALSE, <<>>)}
    \cup {SettingsDoc(indent, TRUE, schemes) :
            indent \in {2, 4},
            schemes \in UNION {[1..n -> SchemeRecords] : n \in 0..MaxSchemes}}

NoMapping == <<>>

\* -------------------------------------------------------------------- Init

\* What every start has in common: no run yet, nothing in memory.
InitCommon ==
    /\ calls = 0
    /\ argv = "none"
    /\ wallpaper = "none"
    /\ colors_json = [exists |-> FALSE, data |-> NoData]
    /\ colors_data = NoData
    /\ color_mapping = NoMapping
    /\ target = 0
    /\ content = [content |-> <<>>, updated |-> FALSE]
    /\ variables = EmptyDict
    /\ new_settings = SettingsMissing
    /\ exit_code = "none"
    /\ orig = [disk |-> disk, settings |-> settings]
    /\ opened = {}
    /\ outcome = [t \in TargetSet |-> "none"]
    /\ attempted = <<>>
    /\ wt = "none"
    /\ fatal = "none"

\* A machine with only styles.css, of any content.
InitStylesheet ==
    /\ \E text \in RunStylesheets :
          disk = [t \in TargetSet |-> IF t = CSS_FILE THEN File(text) ELSE Missing]
    /\ settings = SettingsMissing

\* A machine with any of the three text targets and a terminal scheme.
InitTargets ==
    /\ \E css \in {Missing, File(LineColor1 \o LineColor8)},
          vencord \in {Missing, File(LineColor1), File(LineAccent)},
          firefox \in {Missing, File(LineBackgroundAlpha)} :
          disk = (CSS_FILE :> css) @@ (VENCORD_THEME_FILE :> vencord)
                 @@ (FIREFOX_CSS_FILE :> firefox)
    /\ settings \in {SettingsMissing, SettingsDoc(4, TRUE, <<SchemeWarm>>)}

\* A machine with styles.css and any settings.json.
InitTerminal ==
    /\ disk = [t \in TargetSet |->
                 IF t = CSS_FILE THEN File(LineColor1 \o LineColor8) ELSE Missing]
    /\ settings \in SettingsDocs

Init ==
    /\ InitStylesheet \/ InitTargets \/ InitTerminal
    /\ InitCommon
    /\ pc = "idle"
\* ----------------------------------------------------------------- actions

\* sys.exit(code), and the end of a run that finished its work
Exit(code, reason) ==
    /\ pc' = "exited"
    /\ exit_code' = code
    /\ fatal' = reason

\* if __name__ == "__main__": the run starts, with "--wt", with a wallpaper
\* path or with no argument.
Invoke ==
    /\ pc = "idle"
    /\ \E a \in {"none", "--wt", "path"} : argv' = a
    /\ pc' = IF argv' = "--wt" THEN "read_css_variables" ELSE "get_wallpaper_path"
    /\ UNCHANGED <<calls, wallpaper, colors_json, colors_data, color_mapping, disk,
                   settings, target, content, variables, new_settings, exit_code, orig,
                   opened, outcome, attempted, wt, fatal>>

\* get_wallpaper_path: the argument, else the path kept in ~/.cache/wal/wal,
\* else exit 1.
get_wallpaper_path ==
    /\ pc = "get_wallpaper_path"
    /\ \/ /\ argv # "none"
          /\ wallpaper' = "path"
          /\ pc' = "check_wallpaper"
          /\ UNCHANGED <<exit_code, fatal>>
       \/ /\ argv = "none"
          /\ wallpaper' = "path"
          /\ pc' = "check_wallpaper"
          /\ UNCHANGED <<exit_code, fatal>>
       \/ /\ argv = "none"
          /\ wallpaper' = wallpaper
          /\ Exit("1", "no_wallpaper_path")
    /\ UNCHANGED <<calls, argv, colors_json, colors_data, color_mapping, disk, settings,
                   target, content, variables, new_settings, orig, opened, outcome,
                   attempted, wt>>

\* main: if not os.path.exists(wallpaper): exit 1
check_wallpaper ==
    /\ pc = "check_wallpaper"
    /\ \/ /\ pc' = "generate_colors"
          /\ UNCHANGED <<exit_code, fatal>>
       \/ Exit("1", "wallpaper_missing")
    /\ UNCHANGED <<calls, argv, wallpaper, colors_json, colors_data, color_mapping, disk,
                   settings, target, content, variables, new_settings, orig, opened,
                   outcome, attempted, wt>>

\* generate_colors: wal runs and leaves a colors.json (or, as load_wal_colors
\* allows for, none), is not installed, or fails.
generate_colors ==
    /\ pc = "generate_colors"
    /\ \/ /\ \E palette \in Palettes : colors_json' = [exists |-> TRUE, data |-> palette]
          /\ pc' = "load_wal_colors"
          /\ UNCHANGED <<exit_code, fatal>>
       \/ /\ colors_json' = colors_json
          /\ pc' = "load_wal_colors"
          /\ UNCHANGED <<exit_code, fatal>>
       \/ /\ colors_json' = colors_json
          /\ Exit("1", "wal_not_installed")
       \/ /\ colors_json' = colors_json
          /\ Exit("1", "wal_failed")
    /\ UNCHANGED <<calls, argv, wallpaper, colors_data, color_mapping, disk, settings,
                   target, content, variables, new_settings, orig, opened, outcome,
                   attempted, wt>>

\* Mutant of load_wal_colors: the diagnostic without the sys.exit(1).
load_wal_colors_goes_on ==
    /\ pc = "load_wal_colors"
    /\ \/ /\ ~colors_json.exists
          /\ colors_data' = NoData
          /\ fatal' = "no_colors_file"
          /\ pc' = "update_css"
          /\ UNCHANGED exit_code
       \/ /\ colors_json.exists
          /\ colors_data' = colors_json.data
          /\ pc' = "update_css"
          /\ UNCHANGED <<exit_code, fatal>>
    /\ UNCHANGED <<calls, argv, wallpaper, colors_json, color_mapping, disk, settings,
                   target, content, variables, new_settings, orig, opened, outcome,
                   attempted, wt>>

\* load_wal_colors: exit 1 without a colors.json, else its content
load_wal_colors ==
    /\ pc = "load_wal_colors"
    /\ \/ /\ ~colors_json.exists
          /\ colors_data' = colors_data
          /\ Exit("1", "no_colors_file")
       \/ /\ colors_json.exists
          /\ colors_data' = colors_json.data
          /\ pc' = "update_css"
          /\ UNCHANGED <<exit_code, fatal>>
    /\ UNCHANGED <<calls, argv, wallpaper, colors_json, color_mapping, disk, settings,
                   target, content, variables, new_settings, orig, opened, outcome,
                   attempted, wt>>

\* update_css, up to its first call of update_file_colors
update_css ==
    /\ pc = "update_css"
    /\ color_mapping' = BuildMapping(colors_data)
    /\ target' = 1
    /\ pc' = "update_file_colors"
    /\ UNCHANGED <<calls, argv, wallpaper, colors_json, colors_data, disk, settings,
                   content, variables, new_settings, exit_code, orig, opened, outcome,
                   attempted, wt, fatal>>

\* update_file_colors returns to update_css, which goes on to its next call.
ufc_return(how) ==
    /\ outcome' = [outcome EXCEPT ![Targets[target]] = how]
    /\ target' = IF target = 3 THEN 0 ELSE target + 1
    /\ pc' = IF target = 3 THEN "call_wt" ELSE "update_file_colors"
    /\ UNCHANGED <<exit_code, fatal>>

\* Mutant of ufc_except: no except clause, the error leaves update_css and main.
ufc_raise ==
    /\ outcome' = [outcome EXCEPT ![Targets[target]] = "error"]
    /\ target' = target
    /\ Exit("1", "uncaught")

\* except Exception as e: print(...), and the function returns
ufc_except == ufc_return("error")

\* update_file_colors, to its exists() test
update_file_colors ==
    /\ pc = "update_file_colors"
    /\ attempted' = Append(attempted, Targets[target])
    /\ \/ /\ ~disk[Targets[target]].exists
          /\ ufc_return("missing")
       \/ /\ disk[Targets[target]].exists
          /\ pc' = "ufc_read"
          /\ UNCHANGED <<outcome, target, exit_code, fatal>>
    /\ UNCHANGED <<calls, argv, wallpaper, colors_json, colors_data, color_mapping, disk,
                   settings, content, variables, new_settings, orig, opened, wt>>

\* update_file_colors: the file is read and the mapping applied in memory; with
\* nothing to update the function returns. The read may raise.
ufc_read ==
    /\ pc = "ufc_read"
    /\ \/ /\ content' = Substitute(color_mapping, disk[Targets[target]].text)
          /\ IF content'.updated
             THEN /\ pc' = "ufc_open"
                  /\ UNCHANGED <<outcome, target, exit_code, fatal>>
             ELSE ufc_return("unchanged")
       \/ /\ content' = content
          /\ ufc_except
    /\ UNCHANGED <<calls, argv, wallpaper, colors_json, colors_data, color_mapping, disk,
                   settings, variables, new_settings, orig, opened, attempted, wt>>

\* update_file_colors: open(file_path, 'w') empties the file, or raises.
ufc_open ==
    /\ pc = "ufc_open"
    /\ \/ /\ disk' = [disk EXCEPT ![Targets[target]] = File(<<>>)]
          /\ opened' = opened \cup {Targets[target]}
          /\ pc' = "ufc_write"
          /\ UNCHANGED <<outcome, target, exit_code, fatal>>
       \/ /\ UNCHANGED <<disk, opened>>
          /\ ufc_except
    /\ UNCHANGED <<calls, argv, wallpaper, colors_json, colors_data, color_mapping,
                   settings, content, variables, new_settings, orig, attempted, wt>>

\* A write that fails leaves a proper prefix of the text; the model takes two
\* of them, the empty file and half the text.
PartialLengths(text) == {0, Len(text) \div 2}

\* update_file_colors: f.write(content) and the close, or an error that leaves
\* part of the text.
ufc_write ==
    /\ pc = "ufc_write"
    /\ \/ /\ disk' = [disk EXCEPT ![Targets[target]] = File(content.content)]
          /\ ufc_return("written")
       \/ /\ \E n \in PartialLengths(content.content) :
                disk' = [disk EXCEPT ![Targets[target]] =
                                         File(SubSeq(content.content, 1, n))]
          /\ ufc_except
    /\ UNCHANGED <<calls, argv, wallpaper, colors_json, colors_data, color_mapping,
                   settings, content, variables, new_settings, orig, opened,
                   attempted, wt>>

\* update_css: css_variables, and the call of update_windows_terminal_scheme
call_wt ==
    /\ pc = "call_wt"
    /\ variables' = CleanVariables(color_mapping)
    /\ pc' = "wt_exists"
    /\ UNCHANGED <<calls, argv, wallpaper, colors_json, colors_data, color_mapping, disk,
                   settings, target, content, new_settings, exit_code, orig, opened,
                   outcome, attempted, wt, fatal>>

\* update_windows_terminal_from_css with read_css_variables: the palette of
\* styles.css, empty when the file is missing or cannot be read; with an empty
\* palette the run ends.
read_css_variables ==
    /\ pc = "read_css_variables"
    /\ \/ /\ ~disk[CSS_FILE].exists
          /\ variables' = EmptyDict
       \/ /\ disk[CSS_FILE].exists
          /\ variables' = ReadVariables(disk[CSS_FILE].text)
       \/ /\ disk[CSS_FILE].exists
          /\ variables' = EmptyDict
    /\ IF variables' = EmptyDict
       THEN Exit("0", "none")
       ELSE /\ pc' = "wt_exists"
            /\ UNCHANGED <<exit_code, fatal>>
    /\ UNCHANGED <<calls, argv, wallpaper, colors_json, colors_data, color_mapping, disk,
                   settings, target, content, new_settings, orig, opened, outcome,
                   attempted, wt>>

\* update_windows_terminal_scheme returns, and its caller ends the run.
wt_return(how) ==
    /\ wt' = how
    /\ Exit("0", "none")

\* update_windows_terminal_scheme, to its exists() test
wt_exists ==
    /\ pc = "wt_exists"
    /\ \/ /\ settings.kind = "missing"
          /\ wt_return("missing")
       \/ /\ settings.kind # "missing"
          /\ wt' = "called"
          /\ pc' = "wt_read"
          /\ UNCHANGED <<exit_code, fatal>>
    /\ UNCHANGED <<calls, argv, wallpaper, colors_json, colors_data, color_mapping, disk,
                   settings, target, content, variables, new_settings, orig, opened,
                   outcome, attempted>>

\* update_windows_terminal_scheme: json.load (the loaded document has no
\* layout), the search of the scheme and its update in memory. The read may
\* raise, and so does json.load on a malformed document.
wt_read ==
    /\ pc = "wt_read"
    /\ \/ /\ settings.kind = "json"
          /\ LET idx == FindCustomWarm(settings.schemes)
             IN  IF idx = 0
                 THEN /\ new_settings' = new_settings
                      /\ wt_return("no_record")
                 ELSE /\ new_settings' =
                            [settings EXCEPT !.indent = 0,
                                             !.schemes[idx] = UpdateScheme(@, variables)]
                      /\ pc' = "wt_open"
                      /\ UNCHANGED <<wt, exit_code, fatal>>
       \/ /\ settings.kind = "malformed"
          /\ new_settings' = new_settings
          /\ wt_return("malformed")
       \/ /\ new_settings' = new_settings
          /\ wt_return("read_error")
    /\ UNCHANGED <<calls, argv, wallpaper, colors_json, colors_data, color_mapping, disk,
                   settings, target, content, variables, orig, opened, outcome,
                   attempted>>

\* update_windows_terminal_scheme: open(WINDOWS_TERMINAL_SETTINGS, 'w')
\* empties the document, or raises.
wt_open ==
    /\ pc = "wt_open"
    /\ \/ /\ settings' = SettingsMalformed
          /\ wt' = "opened"
          /\ pc' = "wt_dump"
          /\ UNCHANGED <<exit_code, fatal>>
       \/ /\ settings' = settings
          /\ wt_return("open_error")
    /\ UNCHANGED <<calls, argv, wallpaper, colors_json, colors_data, color_mapping, disk,
                   target, content, variables, new_settings, orig, opened, outcome,
                   attempted>>

\* update_windows_terminal_scheme: json.dump(settings, f, indent=4), or an
\* error that leaves a truncated document.
wt_dump ==
    /\ pc = "wt_dump"
    /\ \/ /\ settings' = [new_settings EXCEPT !.indent = 4]
          /\ wt_return("written")
       \/ /\ settings' = SettingsMalformed
          /\ wt_return("write_error")
    /\ UNCHANGED <<calls, argv, wallpaper, colors_json, colors_data, color_mapping, disk,
                   target, content, variables, new_settings, orig, opened, outcome,
                   attempted>>

Next ==
    \/ Invoke
    \/ get_wallpaper_path
    \/ check_wallpaper
    \/ generate_colors
    \/ load_wal_colors
    \/ update_css
    \/ update_file_colors
    \/ ufc_read
    \/ ufc_open
    \/ ufc_write
    \/ call_wt
    \/ read_css_variables
    \/ wt_exists
    \/ wt_read
    \/ wt_open
    \/ wt_dump

Spec == Init /\ [][Next]_vars
\* ----------------------------------------------------- text specification
\* update_file_colors and read_css_variables as functions of one file: calls
\* of the two, in any order, on a styles.css of any content, without I/O
\* errors.

InitText ==
    /\ \E css \in {Missing} \cup {File(text) : text \in Stylesheets} :
          disk = [t \in TargetSet |-> IF t = CSS_FILE THEN css ELSE Missing]
    /\ settings = SettingsMissing
    /\ InitCommon
    /\ pc = "text"

\* update_file_colors(CSS_FILE, color_mapping) from its call to its return
update_file_colors_call ==
    /\ pc \in {"text", "patched", "read"}
    /\ calls < MaxCalls
    /\ calls' = calls + 1
    /\ \E palette \in Palettes : color_mapping' = BuildMapping(palette)
    /\ orig' = [disk |-> disk, settings |-> settings]
    /\ attempted' = <<CSS_FILE>>
    /\ IF ~disk[CSS_FILE].exists
       THEN /\ outcome' = [outcome EXCEPT ![CSS_FILE] = "missing"]
            /\ opened' = {}
            /\ UNCHANGED <<content, disk>>
       ELSE /\ content' = Substitute(color_mapping', disk[CSS_FILE].text)
            /\ IF content'.updated
               THEN /\ disk' = [disk EXCEPT ![CSS_FILE] = File(content'.content)]
                    /\ opened' = {CSS_FILE}
                    /\ outcome' = [outcome EXCEPT ![CSS_FILE] = "written"]
               ELSE /\ disk' = disk
                    /\ opened' = {}
                    /\ outcome' = [outcome EXCEPT ![CSS_FILE] = "unchanged"]
    /\ variables' = EmptyDict
    /\ pc' = "patched"
    /\ UNCHANGED <<argv, wallpaper, colors_json, colors_data, settings, target,
                   new_settings, exit_code, wt, fatal>>

\* read_css_variables(CSS_FILE) from its call to its return
read_css_variables_call ==
    /\ pc \in {"text", "patched"}
    /\ variables' = IF disk[CSS_FILE].exists
                    THEN ReadVariables(disk[CSS_FILE].text)
                    ELSE EmptyDict
    /\ pc' = IF pc = "patched" THEN "read" ELSE "text_read"
    /\ UNCHANGED <<calls, argv, wallpaper, colors_json, colors_data, color_mapping, disk,
                   settings, target, content, new_settings, exit_code, orig, opened,
                   outcome, attempted, wt, fatal>>

NextText ==
    \/ update_file_colors_call
    \/ read_css_variables_call

SpecText == InitText /\ [][NextText]_vars
\* ------------------------------------------------------------- properties
\* Notions the properties are stated with; none of them is used by the model.

\* The characters of a CSS custom property name
NameChar ==
    Digit \cup {"-", "_"} \cup {LowerCase[i] : i \in 1..26} \cup {UpperCase[i] : i \in 1..26}

RECURSIVE SkipName(_, _)
SkipName(text, j) ==
    IF j <= Len(text) /\ text[j] \in NameChar THEN SkipName(text, j + 1) ELSE j

RECURSIVE SkipHex(_, _)
SkipHex(text, j) ==
    IF j <= Len(text) /\ text[j] \in HexDigit THEN SkipHex(text, j + 1) ELSE j

\* A declaration "<name>:<whitespace>#RRGGBB" whose whole name starts at
\* position i: <<name, position of the "#">>, <<>> when there is none.
WholeDeclAt(text, i) ==
    IF text[i] \in NameChar /\ (i = 1 \/ text[i - 1] \notin NameChar)
    THEN LET e == SkipName(text, i)
             h == SkipWs(text, e + 1)
         IN  IF e <= Len(text) /\ text[e] = ":" /\ Hex6At(text, h)
             THEN <<SubSeq(text, i, e - 1), h>>
             ELSE <<>>
    ELSE <<>>

\* The declarations of a text, in their order: name and "#RRGGBB" value
RECURSIVE DeclsFrom(_, _)
DeclsFrom(text, i) ==
    IF i > Len(text) THEN <<>>
    ELSE LET d == WholeDeclAt(text, i)
         IN  IF d # <<>>
             THEN <<[name |-> d[1], value |-> SubSeq(text, d[2], d[2] + 6)]>>
                  \o DeclsFrom(text, d[2] + 7)
             ELSE DeclsFrom(text, i + 1)

Decls(text) == DeclsFrom(text, 1)

\* name contains key, and is longer
ProperPart(key, name) ==
    /\ Len(key) < Len(name)
    /\ \E o \in 1..(Len(name) - Len(key) + 1) : SubSeq(name, o, o + Len(key) - 1) = key

MappingIndex == 1..19

\* Positions of the "#" of the declarations the pattern of entry k matches
MatchesOf(text, k) ==
    {DeclAt(text, i, color_mapping[k][1]) : i \in 1..Len(text)} \ {0}

\* The text with the value of every declaration of a mapped name replaced, in
\* one pass, every other character kept.
RECURSIVE ExpectedFrom(_, _)
ExpectedFrom(text, i) ==
    IF i > Len(text) THEN <<>>
    ELSE LET d == WholeDeclAt(text, i)
         IN  IF d # <<>> /\ \E k \in MappingIndex : color_mapping[k][1] = d[1]
             THEN LET k == CHOOSE k \in MappingIndex : color_mapping[k][1] = d[1]
                  IN  SubSeq(text, i, d[2] - 1) \o color_mapping[k][2]
                      \o ExpectedFrom(text, d[2] + 7)
             ELSE <<text[i]>> \o ExpectedFrom(text, i + 1)

\* A call of update_file_colors on styles.css has returned without an error.
PatchReturned == pc = "patched" /\ outcome[CSS_FILE] \in {"written", "unchanged"}

\* C1: update_file_colors never alters a declaration whose name only contains a
\* mapping key as a proper part; it rewrites declarations named exactly by a key.
C1_WholeNamesOnly ==
    PatchReturned =>
        LET before == Decls(orig.disk[CSS_FILE].text)
            after == Decls(disk[CSS_FILE].text)
        IN  /\ Len(after) = Len(before)
            /\ \A j \in 1..Len(before) :
                  (/\ \A k \in MappingIndex : color_mapping[k][1] # before[j].name
                   /\ \E k \in MappingIndex : ProperPart(color_mapping[k][1], before[j].name))
                      => after[j] = before[j]

\* C5: the text update_file_colors leaves is the text it read with the #RRGGBB
\* value of every declaration of a mapped name replaced by the mapped value, and
\* all other text, declarations of unmapped names included, identical.
C5_OnlyValueSpans ==
    PatchReturned => disk[CSS_FILE].text = ExpectedFrom(orig.disk[CSS_FILE].text, 1)

\* The value a declaration carries: "#" and all the hex digits after it
DeclaredValue(text, h) == SubSeq(text, h, SkipHex(text, h + 1) - 1)

\* Every declaration the mapping matches carries the value the mapping gives.
MappingEqualsFile(text) ==
    \A k \in MappingIndex : \A h \in MatchesOf(text, k) :
        DeclaredValue(text, h) = color_mapping[k][2]

\* C3: update_file_colors with a mapping whose values are the values the file
\* declares reports no change and leaves the file as it is.
C3_Idempotent ==
    (PatchReturned /\ MappingEqualsFile(orig.disk[CSS_FILE].text)) =>
        /\ outcome[CSS_FILE] = "unchanged"
        /\ disk = orig.disk

\* read_css_variables has returned, called right after update_file_colors.
ReadAfterPatch == pc = "read" /\ outcome[CSS_FILE] \in {"written", "unchanged"}

\* C4 as stated: after update_file_colors, read_css_variables returns for every
\* mapping key the file declares exactly the value of the mapping.
C4_RoundTripExact ==
    ReadAfterPatch =>
        \A k \in MappingIndex :
            MatchesOf(disk[CSS_FILE].text, k) # {} =>
                /\ RemoveDashDash(color_mapping[k][1]) \in DOMAIN variables
                /\ variables[RemoveDashDash(color_mapping[k][1])] = color_mapping[k][2]

\* C4 amended: after update_file_colors, read_css_variables returns for every
\* mapping key the file declares the first seven characters, #RRGGBB, of the
\* value of the mapping, however often the file declares the key.
C4_RoundTripRGB ==
    ReadAfterPatch =>
        \A k \in MappingIndex :
            MatchesOf(disk[CSS_FILE].text, k) # {} =>
                /\ RemoveDashDash(color_mapping[k][1]) \in DOMAIN variables
                /\ variables[RemoveDashDash(color_mapping[k][1])]
                       = SubSeq(color_mapping[k][2], 1, 7)

\* A round trip through a file that declares one key twice, with a palette
\* whose background has an alpha suffix.
C4_Witness ==
    /\ pc = "read"
    /\ outcome[CSS_FILE] = "written"
    /\ Len(color_mapping[17][2]) = 9
    /\ \E k \in MappingIndex : Cardinality(MatchesOf(disk[CSS_FILE].text, k)) >= 2
    /\ BackgroundKey \in DOMAIN variables
\* The text of target t when the run started
OrigText(t) == orig.disk[t].text

\* Some entry of the mapping matches a declaration of the text whose #RRGGBB is
\* not the value of the entry.
SomeValueDiffers(text) ==
    \E k \in MappingIndex : \E h \in MatchesOf(text, k) :
        SubSeq(text, h, h + 6) # color_mapping[k][2]

\* C2: a text target is opened for writing only if it exists and some entry of
\* the mapping matches a declaration and changes its value; a target that is
\* missing, has no matching declaration or already has the mapped values is
\* never opened and keeps its content.
C2_WriteOnlyOnChange ==
    \A t \in TargetSet :
        /\ t \in opened =>
              /\ orig.disk[t].exists
              /\ color_mapping # NoMapping
              /\ SomeValueDiffers(OrigText(t))
        /\ t \notin opened => disk[t] = orig.disk[t]

\* A target whose declarations the mapping matches, all with the mapped values
\* already: update_file_colors has returned without writing.
C2_Witness ==
    \E t \in TargetSet :
        /\ outcome[t] = "unchanged"
        /\ \E k \in MappingIndex : MatchesOf(OrigText(t), k) # {}
        /\ t \notin opened

\* C9: at every point of a run each text target holds its original content or
\* the completely patched content.
C9_AtomicWrite ==
    \A t \in TargetSet :
        \/ disk[t] = orig.disk[t]
        \/ /\ color_mapping # NoMapping
           /\ disk[t] = File(Substitute(color_mapping, OrigText(t)).content)

SetupErrors ==
    {"no_wallpaper_path", "wallpaper_missing", "wal_not_installed", "wal_failed",
     "no_colors_file"}

\* Nothing of the targets has been touched.
NothingWritten ==
    /\ opened = {}
    /\ attempted = <<>>
    /\ wt = "none"
    /\ disk = orig.disk
    /\ settings = orig.settings

\* C7: a run of main that meets a fatal setup error (no wallpaper path, a
\* wallpaper that does not exist, wal missing or failing, no colors.json) has
\* ended with exit status 1 and has written no target; work on the targets
\* starts only with the palette loaded.
C7_FatalBeforeWork ==
    /\ fatal \in SetupErrors =>
          /\ pc = "exited"
          /\ exit_code = "1"
          /\ NothingWritten
    /\ (argv # "--wt" /\ ~NothingWritten) => (colors_json.exists /\ fatal = "none")

\* A run that ended for want of a colors.json, with a stylesheet it would
\* have rewritten.
C7_Witness ==
    /\ pc = "exited"
    /\ exit_code = "1"
    /\ fatal = "no_colors_file"
    /\ disk[CSS_FILE].exists
    /\ disk[CSS_FILE].text = LineColor1 \o LineColor8

IsPrefix(s, t) == Len(s) <= Len(t) /\ SubSeq(t, 1, Len(s)) = s

\* C8: in update_css no missing target and no I/O error of one target keeps
\* the others from being processed: the targets are attempted in the order
\* styles.css, Vencord, Firefox, update_windows_terminal_scheme is called after
\* the three, a run that entered update_css ends only after all of that, with
\* exit status 0, and no error leaves update_file_colors.
C8_FailureIsolation ==
    /\ fatal # "uncaught"
    /\ IsPrefix(attempted, Targets)
    /\ (argv # "--wt" /\ wt # "none") => attempted = Targets
    /\ (pc = "exited" /\ attempted # <<>>) =>
          /\ attempted = Targets
          /\ \A t \in TargetSet : outcome[t] # "none"
          /\ wt # "none"
          /\ exit_code = "0"

\* A run whose first target failed with an I/O error, whose second target was
\* missing, and which went on to rewrite the third and the terminal scheme.
C8_Witness ==
    /\ pc = "exited"
    /\ outcome[CSS_FILE] = "error"
    /\ outcome[VENCORD_THEME_FILE] = "missing"
    /\ outcome[FIREFOX_CSS_FILE] = "written"
    /\ wt = "written"
\* The index of the first record named "Custom Warm", as the least such index
FirstWarm(schemes) ==
    CHOOSE idx \in 1..Len(schemes) :
        /\ schemes[idx].name = CustomWarm
        /\ \A j \in 1..Len(schemes) : schemes[j].name = CustomWarm => idx <= j

HasWarm(doc) ==
    doc.kind = "json" /\ \E idx \in 1..Len(doc.schemes) : doc.schemes[idx].name = CustomWarm

\* r is v in upper case: the same characters, each lower-case letter replaced
\* by its capital.
IsUpperOf(r, v) ==
    /\ Len(r) = Len(v)
    /\ \A i \in 1..Len(v) :
          \/ (\A j \in 1..26 : v[i] # LowerCase[j]) /\ r[i] = v[i]
          \/ \E j \in 1..26 : v[i] = LowerCase[j] /\ r[i] = UpperCase[j]

\* The value the scheme is to hold for palette key `key` with value v
IsSchemeValueOf(r, key, v) ==
    IF key = BackgroundKey /\ Len(v) = 9
    THEN IsUpperOf(r, SubSeq(v, 1, 7))
    ELSE IsUpperOf(r, v)

\* update_windows_terminal_scheme has rewritten settings.json.
SchemeWritten == pc = "exited" /\ wt = "written"

\* The properties the palette `variables` assigns
AssignedProps ==
    {color_map[k][2] : k \in {j \in 1..19 : color_map[j][1] \in DOMAIN variables}}
    \cup (IF ColorKey(8) \in DOMAIN variables THEN {"selectionBackground"} ELSE {})

\* C6: after update_windows_terminal_scheme, the record "Custom Warm" has for
\* every palette key of `variables` the mapped property equal to the value in
\* upper case, a 9-character background cut to its first 7 characters first,
\* selectionBackground equal to color8 in upper case when color8 is there, and
\* every property whose palette key is absent as it was.
C6_SchemeValues ==
    SchemeWritten =>
        LET idx == FirstWarm(orig.settings.schemes)
            old == orig.settings.schemes[idx].props
            new == settings.schemes[idx].props
        IN  /\ \A k \in 1..19 :
                  color_map[k][1] \in DOMAIN variables =>
                      /\ color_map[k][2] \in DOMAIN new
                      /\ IsSchemeValueOf(new[color_map[k][2]], color_map[k][1],
                                         variables[color_map[k][1]])
            /\ ColorKey(8) \in DOMAIN variables =>
                  /\ "selectionBackground" \in DOMAIN new
                  /\ IsUpperOf(new["selectionBackground"], variables[ColorKey(8)])
            /\ DOMAIN new = DOMAIN old \cup AssignedProps
            /\ \A p \in DOMAIN old \ AssignedProps : new[p] = old[p]

\* A scheme rewritten from a palette whose background has an alpha suffix and
\* whose values have lower-case digits.
C6_Witness ==
    /\ SchemeWritten
    /\ BackgroundKey \in DOMAIN variables
    /\ Len(variables[BackgroundKey]) = 9
    /\ variables[ColorKey(1)] = <<"#", "f", "f", "0", "0", "a", "a">>

\* C10: update_windows_terminal_scheme changes only the first record named
\* "Custom Warm": every other record, later records of that name included, and
\* every other setting keep their values; a settings.json that is missing,
\* malformed or without such a record is never opened for writing.
C10_SchemeFrame ==
    /\ SchemeWritten =>
          LET idx == FirstWarm(orig.settings.schemes)
          IN  /\ settings.kind = "json"
              /\ settings.other = orig.settings.other
              /\ settings.has_schemes = orig.settings.has_schemes
              /\ Len(settings.schemes) = Len(orig.settings.schemes)
              /\ settings.schemes[idx].name = CustomWarm
              /\ \A j \in 1..Len(settings.schemes) :
                    j # idx => settings.schemes[j] = orig.settings.schemes[j]
    /\ ~HasWarm(orig.settings) =>
          /\ settings = orig.settings
          /\ wt \notin {"opened", "open_error", "write_error", "written"}

\* A settings.json with two records named "Custom Warm", rewritten.
C10_Witness ==
    /\ SchemeWritten
    /\ Len(orig.settings.schemes) = 2
    /\ \A j \in 1..2 : orig.settings.schemes[j].name = CustomWarm
    /\ settings.schemes[1] # orig.settings.schemes[1]
====
